---- MODULE Spec2Model ----
(***************************************************************************)
(* A model of the percolation engine of OpenPNM:                           *)
(* openpnm/algorithms/OrdinaryPercolation.py (class OrdinaryPercolation)   *)
(* running on a small pore network, of the relative-permeability workflow  *)
(* openpnm/algorithms/RelativePermeability.py (class RelativePermeability) *)
(* and of the label and property store OpenPNM/Utilities/__Tools__.py      *)
(* (class Tools).  Pressures are integers 1..MaxP, the value Inf stands    *)
(* for numpy's +infinity.                                                  *)
(***************************************************************************)
EXTENDS Integers, Sequences, FiniteSets, TLC

\* ------------------------------------------------------------------ bounds
NumSites == 4
MaxP == 3
\* the longest threshold sequence and the most inlet (outlet) sites of Spec
MaxPoints == 2
MaxInlets == 1
\* the same of SpecSweep
SweepPoints == 3
SweepInlets == 2
\* the largest number of points asked of run() in SpecCount
MaxCount == 3
\* SpecRelPerm: the number of target saturations of the sweep (the code's
\* np.linspace(0, 1, num=10) has ten), the most axis pairs of one setup call
\* and the largest permeability a flow solve returns
NumSat == 3
MaxPairs == 2
MaxPerm == 2
\* SpecLabels, SpecData: the pores and throats of the network whose labels and
\* properties the Tools object holds, the longest list of labels of a query
\* and the longest list of locations of a call
NumPores == 2
NumThroats == 2
MaxLabels == 2
MaxLocs == 2
\* SpecData: the largest value of a property
MaxVal == 2

\* ------------------------------------------------------------- the network
\* Np sites and Nt bonds; the network is a ring: bond b joins site b and its
\* successor, so the network has cycles and non-adjacent sites.
Sites == 1..NumSites
Bonds == 1..NumSites
conns == [b \in Bonds |-> <<b, (b % NumSites) + 1>>]

\* run(points=n) compares a pressure with the literal 1; where that matters
\* (SpecCount) a pressure is counted in fortieths, so that 0.95 and 1.05
\* times an entry pressure are whole numbers: One is the pressure 1.0.
One == 40
Inf == One * (MaxP + 1)
NoData == <<>>
Pressures == 1..MaxP
MinOf(S) == CHOOSE x \in S : \A y \in S : x <= y

VARIABLES
    throatPc,      \* phase['throat.capillary_pressure']
    porePc,        \* phase['pore.capillary_pressure']
    settings,      \* self.settings
    entry,         \* self['throat.entry_pressure'], self['pore.entry_pressure']
    pinv,          \* self['pore.invasion_pressure']
    tinv,          \* self['throat.invasion_pressure']
    pseq,          \* self['pore.invasion_sequence']
    tseq,          \* self['throat.invasion_sequence']
    inlets,        \* self['pore.inlets'], as the set of sites that are True
    outlets,       \* self['pore.outlets']
    presidual,     \* self['pore.residual']
    tresidual,     \* self['throat.residual']
    pc,            \* position of the running call: "idle" or "loop" (in run)
    points,        \* run(): the thresholds still to be applied
    sweep,         \* run(): the whole threshold sequence of the call
    ret,           \* the last call and what it returned or raised
    \* openpnm/algorithms/RelativePermeability.py (class RelativePermeability)
    rpSettings,    \* self.settings of the RelativePermeability object
    rpFrame,       \* setup_ip_algs(): its position and its local variables
    project,       \* the flow-solver objects of self.project
    phases,        \* the occupancy and conduit models of the two phases
    ip,            \* the InvasionPercolation object inv
    rpRet,         \* the last RelativePermeability call and its outcome
    rpModule,      \* the module's default_settings and a second instance
    \* OpenPNM/Utilities/__Tools__.py (class Tools)
    info,          \* self._pore_info and self._throat_info, by element
    data,          \* self._pore_data and self._throat_data, by element
    toolsRet       \* the last Tools call, its arguments and its outcome

vars == <<throatPc, porePc, settings, entry, pinv, tinv, pseq, tseq, inlets,
          outlets, presidual, tresidual, pc, points, sweep, ret,
          rpSettings, rpFrame, project, phases, ip, rpRet, rpModule,
          info, data, toolsRet>>

engine == <<throatPc, porePc, settings, entry, pinv, tinv, pseq, tseq, inlets,
            outlets, presidual, tresidual, pc, points, sweep, ret>>
relperm == <<rpSettings, rpFrame, project, phases, ip, rpRet, rpModule>>
tools == <<info, data, toolsRet>>

invasion == <<pinv, tinv, pseq, tseq>>
masks == <<inlets, outlets, presidual, tresidual>>
phase == <<throatPc, porePc>>

\* --------------------------------------------------------------- settings
default_settings ==
    [access_limited |-> TRUE,
     mode |-> "bond",
     pore_entry_pressure |-> "pore.capillary_pressure",
     throat_entry_pressure |-> "throat.capillary_pressure",
     pore_volume |-> "",
     throat_volume |-> ""]

\* ------------------------------------------------------- cluster labelling
\* Sites reachable from the sites of S over the bonds of B.
RECURSIVE Reach(_, _)
Reach(S, B) ==
    LET T == S \cup {conns[b][1] : b \in {x \in B : conns[x][2] \in S}}
                \cup {conns[b][2] : b \in {x \in B : conns[x][1] \in S}}
    IN IF T = S THEN S ELSE Reach(T, B)

\* The id of the cluster of site s: clusters are numbered from 0 by their
\* smallest site.
ClusterId(s, B) == MinOf(Reach({s}, B)) - 1

bond_percolation(t_invaded) ==
    LET B == {b \in Bonds : t_invaded[b]}
        touched == {conns[b][1] : b \in B} \cup {conns[b][2] : b \in B}
        s_labels == [s \in Sites |-> IF s \in touched THEN ClusterId(s, B) ELSE -1]
    IN [sites |-> s_labels,
        bonds |-> [b \in Bonds |-> IF b \in B THEN s_labels[conns[b][1]] ELSE -1]]

site_percolation(p_invaded) ==
    LET B == {b \in Bonds : p_invaded[conns[b][1]] /\ p_invaded[conns[b][2]]}
        s_labels == [s \in Sites |-> IF p_invaded[s] THEN ClusterId(s, B) ELSE -1]
    IN [sites |-> s_labels,
        bonds |-> [b \in Bonds |-> IF b \in B THEN s_labels[conns[b][1]] ELSE -1]]

remove_isolated_clusters(labels, Pin) ==
    LET inv_clusters == {labels.sites[i] : i \in Pin} \ {-1}
    IN [sites |-> [s \in Sites |->
                     IF labels.sites[s] \in inv_clusters THEN labels.sites[s] ELSE -1],
        bonds |-> [b \in Bonds |->
                     IF labels.bonds[b] \in inv_clusters THEN labels.bonds[b] ELSE -1]]

\* ------------------------------------------------------------------- reset
ResetInvasion ==
    /\ pinv' = [s \in Sites |-> Inf]
    /\ tinv' = [b \in Bonds |-> Inf]
    /\ pseq' = [s \in Sites |-> -1]
    /\ tseq' = [b \in Bonds |-> -1]

ResetMasks ==
    /\ inlets' = {}
    /\ outlets' = {}
    /\ presidual' = {}
    /\ tresidual' = {}

Idle == [op |-> "init", err |-> ""]

\* The entry-pressure arrays of the phase.  The ring looks the same from each
\* of its sites, so an array stands for all its rotations: only the first of
\* them in dictionary order is taken, and the inlets range over every site.
Rot(f, k) == [b \in Bonds |-> f[((b - 1 + k) % NumSites) + 1]]
LexLeq(f, g) ==
    \/ f = g
    \/ \E i \in Bonds : f[i] < g[i] /\ \A j \in 1..(i - 1) : f[j] = g[j]
PressureArrays ==
    {f \in [Bonds -> Pressures] : \A k \in 1..(NumSites - 1) : LexLeq(f, Rot(f, k))}

\* The RelativePermeability object as constructed, and a second one
\* constructed after it.  __init__ copies the entries of the module's
\* default_settings into self.settings, so the dictionaries under the keys
\* DictKeys are the same objects in default_settings and in the settings of
\* every instance: Shared gives what a holder of these objects reads once
\* they hold what st holds.
EmptyDict == [k \in {} |-> 0]
DictKeys == {"inv_inlets", "flow_inlets", "flow_outlets", "sat", "relperm_wp",
             "relperm_nwp", "perm_wp", "perm_nwp", "BP_1", "BP_2"}
Shared(st, own) ==
    [k \in DOMAIN own \cup DictKeys |-> IF k \in DictKeys THEN st[k] ELSE own[k]]
Module(st) ==
    [default_settings |-> Shared(st, rpModule.default_settings),
     other |-> Shared(st, rpModule.other)]
RpInit ==
    /\ rpSettings = [input_vect |-> <<>>, inv_inlets |-> EmptyDict,
                     flow_inlets |-> EmptyDict, flow_outlets |-> EmptyDict,
                     BP_1 |-> EmptyDict, BP_2 |-> EmptyDict, mode |-> "strict",
                     perm_wp |-> EmptyDict, perm_nwp |-> EmptyDict,
                     sat |-> EmptyDict, relperm_wp |-> EmptyDict,
                     relperm_nwp |-> EmptyDict]
    /\ rpFrame = [pc |-> "idle"]
    /\ project = [objects |-> {}, created |-> 0, Keff |-> NoData,
                  inlets |-> <<>>, outlets |-> <<>>]
    /\ phases = [occupancy |-> NoData, regenerated |-> 0]
    /\ ip = [inlets |-> {}, pores |-> {}, runs |-> <<>>, first |-> 0]
    /\ rpRet = Idle
    /\ rpModule = [default_settings |-> Shared(rpSettings, [mode |-> "strict"]),
                   other |-> Shared(rpSettings, [mode |-> "strict"])]

\* The Tools object as constructed: four empty dictionaries.
ToolsInit ==
    /\ info = [pore |-> EmptyDict, throat |-> EmptyDict]
    /\ data = [pore |-> EmptyDict, throat |-> EmptyDict]
    /\ toolsRet = Idle

\* The engine as constructed, on a phase whose entry pressures are among P.
InitOn(P) ==
    /\ RpInit
    /\ ToolsInit
    /\ throatPc \in P
    /\ porePc = [s \in Sites |-> throatPc[s]]
    /\ settings = default_settings
    /\ entry = [throat |-> NoData, pore |-> NoData]
    /\ pinv = [s \in Sites |-> Inf]
    /\ tinv = [b \in Bonds |-> Inf]
    /\ pseq = [s \in Sites |-> -1]
    /\ tseq = [b \in Bonds |-> -1]
    /\ inlets = {}
    /\ outlets = {}
    /\ presidual = {}
    /\ tresidual = {}
    /\ pc = "idle"
    /\ points = <<>>
    /\ sweep = <<>>
    /\ ret = Idle

Init == InitOn(PressureArrays)

NoFrame == /\ pc' = "idle" /\ points' = <<>> /\ sweep' = <<>>

\* What a reset call returns to: "RUN" when the call before it was a run that
\* completed.
Lifecycle == IF ret.op = "run" /\ ret.err = "" THEN "RUN" ELSE "other"

ResetKeepOutlets ==
    /\ pc = "idle"
    /\ ResetInvasion
    /\ inlets' = {}
    /\ presidual' = {}
    /\ tresidual' = {}
    /\ NoFrame
    /\ ret' = [op |-> "reset", err |-> "", from |-> Lifecycle]
    /\ UNCHANGED <<tools, relperm, phase, settings, entry, outlets>>

ResetSettings ==
    /\ pc = "idle"
    /\ ResetInvasion
    /\ ResetMasks
    /\ NoFrame
    /\ ret' = [op |-> "reset", err |-> "", from |-> Lifecycle]
    /\ settings' = default_settings
    /\ UNCHANGED <<tools, relperm, phase, entry>>

reset ==
    /\ pc = "idle"
    /\ ResetInvasion
    /\ ResetMasks
    /\ NoFrame
    /\ ret' = [op |-> "reset", err |-> "", from |-> Lifecycle]
    /\ UNCHANGED <<tools, relperm, phase, settings, entry>>

\* ------------------------------------------------------------------- setup
\* phase[key]: the phase holds the two capillary-pressure arrays and nothing
\* else; NoData stands for the KeyError of a key it does not hold.
PhaseGet(tPc, pPc, key) ==
    IF key = "throat.capillary_pressure" THEN tPc
    ELSE IF key = "pore.capillary_pressure" THEN pPc
    ELSE NoData

\* setup(access_limited, mode, throat_entry_pressure, pore_entry_pressure,
\* pore_volume, throat_volume): an argument left out is "none"
\* (access_limited) or "" (the strings).  The body of setup() never reads its
\* pore_volume and throat_volume arguments.
SetupSettings(st, al, m, tk, pk) ==
    LET s1 == IF tk # "" THEN [st EXCEPT !.throat_entry_pressure = tk] ELSE st
        tfail == tk # "" /\ PhaseGet(throatPc, porePc, tk) = NoData
        s2 == IF ~tfail /\ pk # "" THEN [s1 EXCEPT !.pore_entry_pressure = pk] ELSE s1
        pfail == ~tfail /\ pk # "" /\ PhaseGet(throatPc, porePc, pk) = NoData
        s3 == IF ~tfail /\ ~pfail /\ m # "" THEN [s2 EXCEPT !.mode = m] ELSE s2
        s4 == IF ~tfail /\ ~pfail /\ al # "none"
              THEN [s3 EXCEPT !.access_limited = (al = "true")] ELSE s3
    IN [settings |-> s4, failed |-> tfail \/ pfail,
        throat |-> tk # "" /\ ~tfail, pore |-> ~tfail /\ pk # "" /\ ~pfail]

setup(al, m, tk, pk, pv, tv) ==
    /\ pc = "idle"
    /\ LET r == SetupSettings(settings, al, m, tk, pk)
       IN /\ settings' = r.settings
          /\ entry' = [throat |-> IF r.throat THEN PhaseGet(throatPc, porePc, tk)
                                  ELSE entry.throat,
                       pore |-> IF r.pore THEN PhaseGet(throatPc, porePc, pk)
                                ELSE entry.pore]
          /\ ret' = [op |-> "setup", err |-> IF r.failed THEN "KeyError" ELSE "",
                      pore_volume |-> pv, throat_volume |-> tv]
    /\ NoFrame
    /\ UNCHANGED <<tools, relperm, phase, invasion, masks>>

\* -------------------------------------------------- set_inlets, set_outlets
set_inlets(pores) ==
    /\ pc = "idle"
    /\ inlets' = inlets \cup pores
    /\ ret' = [op |-> "set_inlets", err |-> ""]
    /\ NoFrame
    /\ UNCHANGED <<tools, relperm, phase, settings, entry, invasion, outlets, presidual, tresidual>>

set_outlets(pores) ==
    /\ pc = "idle"
    /\ outlets' = outlets \cup pores
    /\ ret' = [op |-> "set_outlets", err |-> ""]
    /\ NoFrame
    /\ UNCHANGED <<tools, relperm, phase, settings, entry, invasion, inlets, presidual, tresidual>>

\* --------------------------------------------------------------------- run
\* The error run() raises before its loop, "" when it raises none.
RunCheckNoInlets(st, tPc, pPc, ins) ==
    IF st.mode \notin {"bond", "site"}
        THEN "Percolation type has not been set"
    ELSE ""

RunCheck(st, tPc, pPc, ins) ==
    IF st.mode = "bond" /\ PhaseGet(tPc, pPc, st.throat_entry_pressure) = NoData
        THEN "KeyError"
    ELSE IF st.mode = "site" /\ PhaseGet(tPc, pPc, st.pore_entry_pressure) = NoData
        THEN "KeyError"
    ELSE IF st.mode \notin {"bond", "site"}
        THEN "Percolation type has not been set"
    ELSE IF st.access_limited /\ ins = {}
        THEN "Inlet pores must be specified first"
    ELSE ""

\* self['throat.entry_pressure'] and self['pore.entry_pressure'] after the
\* input parsing of run(): the active mode's array is read from the phase.
RunEntry(st, ent, tPc, pPc) ==
    IF st.mode = "bond" /\ PhaseGet(tPc, pPc, st.throat_entry_pressure) # NoData
        THEN [ent EXCEPT !.throat = PhaseGet(tPc, pPc, st.throat_entry_pressure)]
    ELSE IF st.mode = "site" /\ PhaseGet(tPc, pPc, st.pore_entry_pressure) # NoData
        THEN [ent EXCEPT !.pore = PhaseGet(tPc, pPc, st.pore_entry_pressure)]
    ELSE ent

IsInf(inv) == \A e \in DOMAIN inv : inv[e] = Inf

RunFail ==
    /\ pc = "idle"
    /\ RunCheck(settings, throatPc, porePc, inlets) # ""
    /\ entry' = RunEntry(settings, entry, throatPc, porePc)
    /\ ret' = [op |-> "run", err |-> RunCheck(settings, throatPc, porePc, inlets)]
    /\ NoFrame
    /\ UNCHANGED <<tools, relperm, phase, settings, invasion, masks>>

RunStart(pts) ==
    /\ pc = "idle"
    /\ RunCheck(settings, throatPc, porePc, inlets) = ""
    /\ entry' = RunEntry(settings, entry, throatPc, porePc)
    /\ pc' = "loop"
    /\ points' = pts
    /\ sweep' = pts
    /\ ret' = [op |-> "running", err |-> ""]
    /\ UNCHANGED <<tools, relperm, phase, settings, invasion, masks>>

\* x to the power k
RECURSIVE Pow(_, _)
Pow(x, k) == IF k = 0 THEN 1 ELSE x * Pow(x, k - 1)

\* sp.logspace(start=sp.log10(a), stop=sp.log10(b), num=n): n points from a
\* to b in geometric progression, point i being a^((n-i)/(n-1)) *
\* b^((i-1)/(n-1)); the end points are exact and a point between them is
\* rounded down to the grid.  One point is a alone.
logspace(a, b, n) ==
    [i \in 1..n |->
        IF n = 1 THEN a
        ELSE LET lo == IF a <= b THEN a ELSE b
                 hi == IF a <= b THEN b ELSE a
                 V == {v \in lo..hi :
                         Pow(v, n - 1) <= Pow(a, n - i) * Pow(b, i - 1)}
             IN CHOOSE v \in V : \A w \in V : w <= v]

MaxOf(S) == CHOOSE x \in S : \A y \in S : y <= x
Values(a) == {a[e] : e \in DOMAIN a}

\* The points run() generates from an integer count: start and stop are <<>>
\* when left out and <<v>> when given; E is the entry-pressure array of the
\* active mode.
GeneratePoints(E, n, start, stop) ==
    LET a == IF start = <<>> THEN (MinOf(Values(E)) * 95) \div 100 ELSE start[1]
        b == IF stop = <<>> THEN (MaxOf(Values(E)) * 105) \div 100 ELSE stop[1]
    IN logspace(IF a < One THEN One ELSE a, b, n)

\* run(points=n, start=, stop=) with an integer n, up to its loop
RunStartCount(n, start, stop) ==
    /\ pc = "idle"
    /\ RunCheck(settings, throatPc, porePc, inlets) = ""
    /\ entry' = RunEntry(settings, entry, throatPc, porePc)
    /\ pc' = "loop"
    /\ LET E == IF settings.mode = "bond" THEN entry'.throat ELSE entry'.pore
       IN /\ points' = GeneratePoints(E, n, start, stop)
          /\ sweep' = GeneratePoints(E, n, start, stop)
    /\ ret' = [op |-> "running", err |-> "", num |-> n, start |-> start, stop |-> stop]
    /\ UNCHANGED <<tools, relperm, phase, settings, invasion, masks>>

\* The cluster labels of one threshold of the loop.
LabelsUnfiltered(st, ent, Pin, inv_val) ==
    IF st.mode = "bond"
    THEN bond_percolation([b \in Bonds |-> ent.throat[b] <= inv_val])
    ELSE site_percolation([s \in Sites |-> ent.pore[s] <= inv_val])

Labels(st, ent, Pin, inv_val) ==
    LET labels == IF st.mode = "bond"
                  THEN bond_percolation([b \in Bonds |-> ent.throat[b] <= inv_val])
                  ELSE site_percolation([s \in Sites |-> ent.pore[s] <= inv_val])
    IN IF st.access_limited THEN remove_isolated_clusters(labels, Pin) ELSE labels

\* inv[inds] = inv_val for inds = (inv == inf) * (labels >= 0)
StorePressureOverwrite(inv, labels, inv_val) ==
    [e \in DOMAIN inv |-> IF labels[e] >= 0 THEN inv_val ELSE inv[e]]

StorePressure(inv, labels, inv_val) ==
    [e \in DOMAIN inv |->
        IF inv[e] = Inf /\ labels[e] >= 0 THEN inv_val ELSE inv[e]]

\* The threshold the loop applies next.
NextPointIndex(pts) == Len(pts)
NextPoint(pts) == Head(pts)

RunStep ==
    /\ pc = "loop"
    /\ points # <<>>
    /\ LET inv_val == NextPoint(points)
           labels == Labels(settings, entry, inlets, inv_val)
       IN /\ pinv' = StorePressure(pinv, labels.sites, inv_val)
          /\ tinv' = StorePressure(tinv, labels.bonds, inv_val)
    /\ points' = Tail(points)
    /\ UNCHANGED <<tools, relperm, phase, settings, entry, pseq, tseq, masks, pc, sweep, ret>>

\* sp.searchsorted(sp.unique(inv), inv): the number of distinct values of inv
\* below each entry (+infinity is a value of the array like any other).
InvasionSequence(inv) ==
    [e \in DOMAIN inv |->
        Cardinality({inv[x] : x \in {y \in DOMAIN inv : inv[y] < inv[e]}})]

RunFinish ==
    /\ pc = "loop"
    /\ points = <<>>
    /\ pseq' = InvasionSequence(pinv)
    /\ tseq' = InvasionSequence(tinv)
    /\ pc' = "idle"
    /\ ret' = [op |-> "run", err |-> ""]
    /\ UNCHANGED <<tools, relperm, phase, settings, entry, pinv, tinv, masks, points, sweep>>

\* ----------------------------------------------------------------- results
\* sp.array(mask, dtype=float): True becomes 1.0 and False 0.0.
AsFloat(b) == IF b THEN 1 ELSE 0

resultsStrict(Pc, Pinv, Tinv) ==
    [pore |-> [s \in Sites |-> AsFloat(Pinv[s] < Pc)],
     throat |-> [b \in Bonds |-> AsFloat(Tinv[b] < Pc)]]

resultsAt(Pc, Pinv, Tinv) ==
    [pore |-> [s \in Sites |-> AsFloat(Pinv[s] = Pc)],
     throat |-> [b \in Bonds |-> AsFloat(Tinv[b] = Pc)]]

results(Pc, Pinv, Tinv) ==
    [pore |-> [s \in Sites |-> AsFloat(Pinv[s] <= Pc)],
     throat |-> [b \in Bonds |-> AsFloat(Tinv[b] <= Pc)]]

Results(Pc) ==
    /\ pc = "idle"
    /\ ret' = [op |-> "results", err |-> "", Pc |-> Pc, occupancy |-> results(Pc, pinv, tinv)]
    /\ NoFrame
    /\ UNCHANGED <<tools, relperm, phase, settings, entry, invasion, masks>>

\* ----------------------------------------------- get_percolation_threshold
\* The error get_percolation_threshold() raises, "" when it raises none.
ThresholdCheck(st, ins, outs) ==
    IF ins = {} THEN "Inlet pores must be specified first"
    ELSE IF outs = {} THEN "Outlet pores must be specified first"
    ELSE IF ~st.access_limited
        THEN "This is currently only implemented for access limited simulations"
    ELSE ""

\* sp.amin(self['pore.invasion_pressure'][Pout])
PercolationThresholdMax(Pinv, Pout) ==
    CHOOSE x \in {Pinv[s] : s \in Pout} : \A s \in Pout : Pinv[s] <= x

PercolationThreshold(Pinv, Pout) == MinOf({Pinv[s] : s \in Pout})

get_percolation_threshold ==
    /\ pc = "idle"
    /\ ret' = IF ThresholdCheck(settings, inlets, outlets) # ""
              THEN [op |-> "get_percolation_threshold",
                    err |-> ThresholdCheck(settings, inlets, outlets)]
              ELSE [op |-> "get_percolation_threshold", err |-> "",
                    thresh |-> PercolationThreshold(pinv, outlets)]
    /\ UNCHANGED <<tools, relperm, phase, settings, entry, invasion, masks, pc, points, sweep>>

\* ------------------------------------------------------------ is_percolating
\* The error is_percolating() raises, "" when it raises none.
PercolatingCheck(ins, outs) ==
    IF ins = {} THEN "Inlet pores must be specified first"
    ELSE IF outs = {} THEN "Outlet pores must be specified first"
    ELSE ""

\* GenericPercolation._is_percolating(am, mode, inlets, outlets), the
\* Percolation Tester: whether an inlet site and an outlet site share a
\* cluster of the connectivity restricted to the bonds of the mask (in site
\* mode to the sites these bonds join).
_is_percolating(mask, mode, ins, outs) ==
    LET joined == {conns[b][1] : b \in {x \in Bonds : mask[x]}}
                    \cup {conns[b][2] : b \in {x \in Bonds : mask[x]}}
        labels == IF mode = "bond" THEN bond_percolation(mask).sites
                  ELSE site_percolation([s \in Sites |-> s \in joined]).sites
    IN \E i \in ins, o \in outs : labels[i] >= 0 /\ labels[i] = labels[o]

IsPercolatingInclusive(Pinv, Tinv, mode, ins, outs, applied_pressure) ==
    IF PercolationThreshold(Pinv, outs) > applied_pressure THEN FALSE
    ELSE _is_percolating([b \in Bonds |-> Tinv[b] <= applied_pressure], mode, ins, outs)

IsPercolating(Pinv, Tinv, mode, ins, outs, applied_pressure) ==
    IF MinOf({Pinv[s] : s \in outs}) > applied_pressure THEN FALSE
    ELSE _is_percolating([b \in Bonds |-> Tinv[b] < applied_pressure], mode, ins, outs)

is_percolating(applied_pressure) ==
    /\ pc = "idle"
    /\ ret' = IF PercolatingCheck(inlets, outlets) # ""
              THEN [op |-> "is_percolating", applied_pressure |-> applied_pressure,
                    err |-> PercolatingCheck(inlets, outlets)]
              ELSE [op |-> "is_percolating", applied_pressure |-> applied_pressure,
                    err |-> "",
                    val |-> IsPercolating(pinv, tinv, settings.mode, inlets,
                                          outlets, applied_pressure)]
    /\ UNCHANGED <<tools, relperm, phase, settings, entry, invasion, masks, pc, points, sweep>>

\* ---------------------------------------------------- get_percolation_data
\* net[key]: the network holds a volume for every pore and every throat.
NetGet(key) ==
    IF key = "pore.volume" THEN [s \in Sites |-> s]
    ELSE IF key = "throat.volume" THEN [b \in Bonds |-> 1]
    ELSE NoData

\* np.unique(a): the values of a, each once, in ascending order.
RECURSIVE UniqueOf(_)
UniqueOf(V) == IF V = {} THEN <<>> ELSE <<MinOf(V)>> \o UniqueOf(V \ {MinOf(V)})
Unique(a) == UniqueOf({a[e] : e \in DOMAIN a})

\* np.sum(vol[mask])
RECURSIVE SumOver(_, _)
SumOver(vol, E) ==
    IF E = {} THEN 0
    ELSE LET e == CHOOSE x \in E : TRUE IN vol[e] + SumOver(vol, E \ {e})

\* The applied capillary pressures: 0, then those of the throats, a last
\* +infinity dropped.
PcapPoints(Tinv) ==
    LET pts == <<0>> \o Unique(Tinv)
    IN IF pts[Len(pts)] = Inf THEN SubSeq(pts, 1, Len(pts) - 1) ELSE pts

Pvol(st) == IF st.pore_volume # "" THEN NetGet(st.pore_volume) ELSE [s \in Sites |-> 1]
Tvol(st) == IF st.throat_volume # "" THEN NetGet(st.throat_volume) ELSE [b \in Bonds |-> 0]

\* V / Total_vol is kept as the fraction <<V, Total_vol>>.
percolation_data(st, Pinv, Tinv) ==
    LET pts == PcapPoints(Tinv)
        Total_vol == SumOver(Pvol(st), Sites) + SumOver(Tvol(st), Bonds)
        Vnwp_all == [i \in 1..Len(pts) |->
                       SumOver(Pvol(st), {s \in Sites : Pinv[s] <= pts[i]})
                       + SumOver(Tvol(st), {b \in Bonds : Tinv[b] <= pts[i]})]
    IN [Pcap |-> pts, Snwp |-> [i \in 1..Len(pts) |-> <<Vnwp_all[i], Total_vol>>]]

get_percolation_data ==
    /\ pc = "idle"
    /\ ret' = IF Pvol(settings) = NoData \/ Tvol(settings) = NoData
              THEN [op |-> "get_percolation_data", err |-> "KeyError"]
              ELSE [op |-> "get_percolation_data", err |-> "",
                    data |-> percolation_data(settings, pinv, tinv)]
    /\ UNCHANGED <<tools, relperm, phase, settings, entry, invasion, masks, pc, points, sweep>>

\* ==================================================== RelativePermeability
\* The axes of the network and the axis pairs (invasion axis, flow axis); the
\* pair <<"x", "y">> is the string 'xy' of the code.
Axes == {"x", "y"}
AxisRank == [a \in Axes |-> IF a = "x" THEN 1 ELSE 2]
AxisPairs == Axes \X Axes
inlet_dict == [a \in Axes |-> IF a = "x" THEN "left" ELSE "front"]
outlet_dict == [a \in Axes |-> IF a = "x" THEN "right" ELSE "back"]

\* d.update({k: v})
Put(d, k, v) == [x \in DOMAIN d \cup {k} |-> IF x = k THEN v ELSE d[x]]

\* input_vect.sort()
PairLeq(p, q) ==
    \/ AxisRank[p[1]] < AxisRank[q[1]]
    \/ p[1] = q[1] /\ AxisRank[p[2]] <= AxisRank[q[2]]
RECURSIVE SortPairs(_)
SortPairs(S) ==
    IF S = {} THEN <<>>
    ELSE LET m == CHOOSE x \in S : \A y \in S : PairLeq(x, y)
         IN <<m>> \o SortPairs(S \ {m})

\* np.linspace(0, 1, num=NumSat): point k is the saturation (k-1)/(NumSat-1),
\* kept as the fraction <<k-1, NumSat-1>>.
Sarr == [k \in 1..NumSat |-> <<k - 1, NumSat - 1>>]

\* The label maps of setup(), after its loop over the pairs of vect.
RECURSIVE LabelMaps(_, _)
LabelMaps(st, vect) ==
    IF vect = <<>> THEN st
    ELSE LET inv == Head(vect)[1]
             flow == Head(vect)[2]
         IN LabelMaps([st EXCEPT !.BP_1 = Put(@, flow, inlet_dict[flow]),
                                 !.BP_2 = Put(@, flow, outlet_dict[flow]),
                                 !.inv_inlets = Put(@, inv, inlet_dict[inv]),
                                 !.flow_inlets = Put(@, flow, inlet_dict[flow]),
                                 !.flow_outlets = Put(@, flow, outlet_dict[flow])],
                       Tail(vect))

\* setup(input_vect) up to the baseline loop of setup_ip_algs(): the pairs
\* are sorted and stored, the label maps filled, the phases and the
\* InvasionPercolation object created.
rp_setup(input_vect) ==
    /\ rpFrame.pc = "idle" /\ rpRet.op = "init"
    /\ LET vect == SortPairs({input_vect[j] : j \in 1..Len(input_vect)})
           st == LabelMaps([rpSettings EXCEPT !.input_vect = vect], vect)
       IN /\ rpSettings' = st
          /\ rpFrame' = [pc |-> "baseline", K_dir |-> DOMAIN st.flow_inlets]
    /\ rpModule' = Module(rpSettings')
    /\ rpRet' = [op |-> "running", err |-> ""]
    /\ UNCHANGED <<tools, engine, project, phases, ip>>

\* A StokesFlow object is created in the project, and purged from it;
\* Solved records what calc_effective_permeability returned for the two
\* phases in the last pair of solves.
Create(pr) == [pr EXCEPT !.objects = @ \cup {pr.created + 1}, !.created = @ + 1]
PurgeKeeps(pr, obj) == pr
Purge(pr, obj) == [pr EXCEPT !.objects = @ \ {obj}]
Solved(pr, val_wp, val_nwp) == [pr EXCEPT !.Keff = [wp |-> val_wp, nwp |-> val_nwp]]

\* network.pores(label): the sites that carry a boundary label, ascending, on
\* a square lattice of 3 x 3 sites numbered 1..9 column by column.
network_pores(label) ==
    CASE label = "left" -> <<1, 2, 3>>
      [] label = "right" -> <<7, 8, 9>>
      [] label = "front" -> <<1, 4, 7>>
      [] label = "back" -> <<3, 6, 9>>

\* [q[x] for x in range(0, len(q), 2)]
Subsample(q) == [j \in 1..((Len(q) + 1) \div 2) |-> q[2 * j - 1]]

\* The site lists setup_ip_algs() builds from the label maps and goes on to
\* use: Iinlets[dim], Finlets_init[dim] and Foutlets_init[dim].
Iinlets(st, dim) == Subsample(network_pores(st.inv_inlets[dim]))
Finlets_init(st, dim) == network_pores(st.flow_inlets[dim])
Foutlets_init(st, dim) == network_pores(st.flow_outlets[dim])

\* calc_effective_permeability(inlets, outlets): the site lists it is given
calc_effective_permeability(pr, ins, outs) ==
    [pr EXCEPT !.inlets = ins, !.outlets = outs]

\* One pass of the baseline loop: for one flow axis a flow solve of each
\* phase returns its permeability, and each solver object is purged.
baseline(dim, val_wp, val_nwp) ==
    /\ rpFrame.pc = "baseline" /\ dim \in rpFrame.K_dir
    /\ rpSettings' = [rpSettings EXCEPT !.perm_wp = Put(@, dim, val_wp),
                                        !.perm_nwp = Put(@, dim, val_nwp)]
    /\ LET p1 == Create(project)
           p2 == Create(Purge(p1, p1.created))
       IN project' = calc_effective_permeability(
                         Solved(Purge(p2, p2.created), val_wp, val_nwp),
                         Finlets_init(rpSettings, dim), Foutlets_init(rpSettings, dim))
    /\ rpFrame' = IF rpFrame.K_dir = {dim}
                  THEN [pc |-> "pair", i |-> 1]
                  ELSE [rpFrame EXCEPT !.K_dir = @ \ {dim}]
    /\ rpModule' = Module(rpSettings')
    /\ UNCHANGED <<tools, engine, phases, ip, rpRet>>

\* A baseline flow solve raises: the solver object stays in the project and
\* setup() ends with the exception.
baseline_fails(dim) ==
    /\ rpFrame.pc = "baseline" /\ dim \in rpFrame.K_dir
    /\ project' = Create(project)
    /\ rpFrame' = [pc |-> "idle"]
    /\ rpRet' = [op |-> "setup", err |-> "SolverFailure"]
    /\ UNCHANGED <<tools, engine, rpSettings, rpModule, phases, ip>>

\* The start of the loop body of pair i: empty result lists, the inlets of
\* the invasion axis added to inv, inv.run().  The run decides the first
\* target saturation at which a throat is occupied (NumSat + 1: at none).
pair_start(first) ==
    /\ rpFrame.pc = "pair" /\ rpFrame.i <= Len(rpSettings.input_vect)
    /\ LET inv_axis == rpSettings.input_vect[rpFrame.i][1]
       IN ip' = [inlets |-> ip.inlets \cup {inv_axis},
                 pores |-> ip.pores \cup Values(Iinlets(rpSettings, inv_axis)),
                 runs |-> Append(ip.runs, inv_axis), first |-> first]
    /\ rpFrame' = [pc |-> "sweep", i |-> rpFrame.i, k |-> 1, linked |-> FALSE,
                   relperm_wp |-> <<>>, relperm_nwp |-> <<>>, Snwparr |-> <<>>]
    /\ UNCHANGED <<tools, engine, rpSettings, rpModule, project, phases, rpRet>>

\* setup() returns after the last pair.
rp_return ==
    /\ rpFrame.pc = "pair" /\ rpFrame.i > Len(rpSettings.input_vect)
    /\ rpFrame' = [pc |-> "idle"]
    /\ rpRet' = [op |-> "setup", err |-> ""]
    /\ UNCHANGED <<tools, engine, rpSettings, rpModule, project, phases, ip>>

\* inv.results(Snwp=Sarr[k]): throats and pores become occupied one after
\* the other from the target saturation ip.first on.
ip_results(k) ==
    [throat |-> [b \in 1..2 |-> AsFloat(ip.first + (b - 1) <= k)],
     pore |-> [s \in 1..2 |-> AsFloat(ip.first + (s - 1) <= k)]]

\* np.any(occ_ts)
np_anyAlways(occ_ts) == TRUE
np_any(occ_ts) == \E b \in DOMAIN occ_ts : occ_ts[b] # 0

\* Keff / baseline, kept as the fraction <<Keff, baseline>>.
RatioUnnormalised(Keff, perm, flow) == <<Keff, 1>>
Ratio(Keff, perm, flow) == <<Keff, perm[flow]>>

\* The session lists of pair key as a caller reads them: once the loop has
\* stored the local lists under the key (lines 185-187), the stored lists
\* and the local ones are the same list objects.
Session(st, fr, key) ==
    IF fr.linked
    THEN [st EXCEPT !.sat = Put(@, key, fr.Snwparr),
                    !.relperm_wp = Put(@, key, fr.relperm_wp),
                    !.relperm_nwp = Put(@, key, fr.relperm_nwp)]
    ELSE st

\* The frame after the pass of the loop over Sarr for point k.
NextSat(fr) ==
    IF fr.k = NumSat THEN [pc |-> "pair", i |-> fr.i + 1]
    ELSE [fr EXCEPT !.k = @ + 1]

\* One pass of the loop over Sarr in which no flow solve raises.
saturation_point(Keff_mp_wp, Keff_mp_nwp) ==
    /\ rpFrame.pc = "sweep"
    /\ LET key == rpSettings.input_vect[rpFrame.i]
           flow == key[2]
           res1 == ip_results(rpFrame.k)
           p1 == Create(Create(project))
           fr == IF np_any(res1.throat)
                 THEN [rpFrame EXCEPT
                         !.Snwparr = Append(@, Sarr[rpFrame.k]),
                         !.relperm_wp =
                             Append(@, Ratio(Keff_mp_wp, rpSettings.perm_wp, flow)),
                         !.relperm_nwp =
                             Append(@, Ratio(Keff_mp_nwp, rpSettings.perm_nwp, flow)),
                         !.linked = TRUE]
                 ELSE [rpFrame EXCEPT !.linked = TRUE]
       IN /\ phases' = IF np_any(res1.throat)
                       THEN [occupancy |-> res1, regenerated |-> phases.regenerated + 2]
                       ELSE phases
          /\ project' = IF np_any(res1.throat)
                        THEN calc_effective_permeability(
                                 Solved(Purge(Purge(p1, p1.created - 1), p1.created),
                                        Keff_mp_wp, Keff_mp_nwp),
                                 Finlets_init(rpSettings, flow),
                                 Foutlets_init(rpSettings, flow))
                        ELSE project
          /\ rpSettings' = Session(rpSettings, fr, key)
          /\ rpFrame' = NextSat(fr)
    /\ rpModule' = Module(rpSettings')
    /\ UNCHANGED <<tools, engine, ip, rpRet>>

\* One pass of the loop over Sarr in which a flow solve raises: the target
\* saturation has been appended, the occupancy stored, the conduit models
\* regenerated and both solver objects created when Stokes_alg_mp_wp.run()
\* or Stokes_alg_mp_nwp.run() ends setup() with the exception.
saturation_point_fails ==
    /\ rpFrame.pc = "sweep"
    /\ np_any(ip_results(rpFrame.k).throat)
    /\ LET key == rpSettings.input_vect[rpFrame.i]
           fr == [rpFrame EXCEPT !.Snwparr = Append(@, Sarr[rpFrame.k])]
       IN rpSettings' = Session(rpSettings, fr, key)
    /\ phases' = [occupancy |-> ip_results(rpFrame.k),
                  regenerated |-> phases.regenerated + 2]
    /\ project' = Create(Create(project))
    /\ rpFrame' = [pc |-> "idle"]
    /\ rpRet' = [op |-> "setup", err |-> "SolverFailure", i |-> rpFrame.i, k |-> rpFrame.k]
    /\ rpModule' = Module(rpSettings')
    /\ UNCHANGED <<tools, engine, ip>>

\* ------------------------------------------------- Tools: labels and indices
\* OpenPNM/Utilities/__Tools__.py.  An array is a sequence, so the index i of
\* the model is the index i - 1 of Python.  A location argument is a list of
\* indices, the string 'all' (All) or the empty string '' (Blank); a call
\* returns a value or raises.
Elements == {"pore", "throat"}
All == <<0>>
Blank == <<-1>>
Ok(v) == [err |-> "", val |-> v]
Raise(e, v) == [err |-> e, val |-> v]

\* sp.where(ind == True)[0]: the indices that are True, ascending
Where(ind) ==
    LET S == {i \in DOMAIN ind : ind[i]}
    IN CHOOSE q \in [1..Cardinality(S) -> S] :
           \A i, j \in 1..Cardinality(S) : i < j => q[i] < q[j]

_get_info(inf, element, label, return_indices) ==
    IF label \notin DOMAIN inf[element] THEN Raise("KeyError", <<>>)
    ELSE Ok(IF return_indices THEN Where(inf[element][label])
            ELSE inf[element][label])

\* _get_indices(): the loop "for item in labels" of the four modes, acc being
\* union, intersect, not_intersect or none
Int8(b) == IF b THEN 1 ELSE 0
RECURSIVE Accumulate(_, _, _, _, _)
Accumulate(inf, element, labels, mode, acc) ==
    IF labels = <<>> THEN acc
    ELSE LET item == _get_info(inf, element, Head(labels), FALSE).val
             next == [i \in DOMAIN acc |->
                        CASE mode = "union" -> acc[i] \/ item[i]
                          [] mode = "intersection" -> acc[i] /\ item[i]
                          [] mode = "not_intersection" -> acc[i] + Int8(item[i])
                          [] mode = "none" -> acc[i] - Int8(item[i])]
         IN Accumulate(inf, element, Tail(labels), mode, next)

_get_indices(inf, element, labels, return_indices, mode) ==
    IF \E l \in {"all"} \cup Values(labels) : l \notin DOMAIN inf[element]
    THEN Raise("KeyError", <<>>)
    ELSE LET like == DOMAIN inf[element]["all"]
             start == [i \in like |->
                         CASE mode = "union" -> FALSE
                           [] mode = "intersection" -> TRUE
                           [] mode \in {"not_intersection", "none"} -> 0]
             acc == Accumulate(inf, element, labels, mode, start)
             ind == [i \in like |->
                       CASE mode \in {"union", "intersection"} -> acc[i]
                         [] mode = "not_intersection" -> acc[i] = 1
                         [] mode = "none" -> acc[i] = 0]
         IN Ok(IF return_indices THEN Where(ind) ELSE ind)

pores(labels, return_indices, mode) ==
    /\ toolsRet' = [op |-> "pores", element |-> "pore", labels |-> labels,
                    mode |-> mode, return_indices |-> return_indices]
                   @@ _get_indices(info, "pore", labels, return_indices, mode)
    /\ UNCHANGED <<info, data, engine, relperm>>

throats(labels, return_indices, mode) ==
    /\ toolsRet' = [op |-> "throats", element |-> "throat", labels |-> labels,
                    mode |-> mode, return_indices |-> return_indices]
                   @@ _get_indices(info, "throat", labels, return_indices, mode)
    /\ UNCHANGED <<info, data, engine, relperm>>

\* sp.sum(temp): the number of Trues of the mask
Count(r) == IF r.err # "" THEN r ELSE Ok(Cardinality({i \in DOMAIN r.val : r.val[i]}))

num_pores(labels, mode) ==
    /\ toolsRet' = [op |-> "num_pores", element |-> "pore", labels |-> labels,
                    mode |-> mode]
                   @@ Count(_get_indices(info, "pore", labels, FALSE, mode))
    /\ UNCHANGED <<info, data, engine, relperm>>

num_throats(labels, mode) ==
    /\ toolsRet' = [op |-> "num_throats", element |-> "throat",
                    labels |-> labels, mode |-> mode]
                   @@ Count(_get_indices(info, "throat", labels, FALSE, mode))
    /\ UNCHANGED <<info, data, engine, relperm>>

list_pore_labels(inf) == DOMAIN inf["pore"]
list_throat_labels(inf) == DOMAIN inf["throat"]

\* _set_info(): a list of indices is no list of labels, so get_<element>_indices
\* raises on it and the list is taken as it is.  The outcome carries the
\* dictionaries as the call leaves them.
_set_info(inf, element, label, locations, mode) ==
    LET d == inf[element]
        store(arr) == [inf EXCEPT ![element] = Put(d, label, arr)]
        at(arr, b) == [i \in DOMAIN arr |->
                         IF i \in Values(locations) THEN b ELSE arr[i]]
    IN IF locations # Blank
       THEN IF label = "" THEN Ok(inf)
            ELSE IF label = "all"
            THEN IF "all" \notin DOMAIN d
                 THEN Ok(store([i \in DOMAIN locations |-> TRUE]))
                 ELSE IF Len(d["all"]) < Len(locations)
                 THEN Ok([inf EXCEPT ![element] =
                            [l \in DOMAIN d |->
                               [i \in DOMAIN locations |->
                                  l = "all" \/ (i <= Len(d[l]) /\ d[l][i])]]])
                 ELSE Ok(inf)
            ELSE IF "all" \notin DOMAIN d /\ (label \notin DOMAIN d \/ mode = "overwrite")
            THEN Raise("KeyError", inf)
            ELSE LET zeros == [i \in DOMAIN d["all"] |-> FALSE]
                     old == IF label \in DOMAIN d /\ mode # "overwrite"
                            THEN d[label] ELSE zeros
                 IN IF mode \notin {"overwrite", "remove", "merge"}
                    THEN Ok(store(old))
                    ELSE IF \E i \in Values(locations) : i \notin DOMAIN old
                    THEN Raise("IndexError", store(old))
                    ELSE Ok(store(at(old, mode # "remove")))
       ELSE IF mode = "remove"
       THEN IF label \in DOMAIN d
            THEN Ok([inf EXCEPT ![element] = [l \in DOMAIN d \ {label} |-> d[l]]])
            ELSE Raise("KeyError", inf)
       ELSE IF "all" \in DOMAIN d
       THEN Ok(store([i \in DOMAIN d["all"] |-> FALSE]))
       ELSE Raise("KeyError", inf)

\* set_info(label, pores, throats, mode): pores and throats are lists, the
\* default [] included, or 'all'
set_info(label, ps, ts, mode) ==
    LET given(inf, element, locations) ==
            IF locations = <<>> THEN Ok(inf)
            ELSE IF locations = All
            THEN LET ind == _get_indices(inf, element, <<"all">>, TRUE, "union")
                 IN IF ind.err # "" THEN Raise(ind.err, inf)
                    ELSE _set_info(inf, element, label, ind.val, mode)
            ELSE _set_info(inf, element, label, locations, mode)
        first == given(info, "pore", ps)
        second == IF first.err # "" THEN first ELSE given(first.val, "throat", ts)
    IN /\ info' = second.val
       /\ toolsRet' = [op |-> "set_info", label |-> label, pores |-> ps,
                       throats |-> ts, mode |-> mode, err |-> second.err]
       /\ UNCHANGED <<data, engine, relperm>>

\* ---------------------------------------------------- Tools: property data
\* A property is stored as an array of one value (a scalar) or of one value
\* per location; nan is numpy's not-a-number and None what a call returns
\* after it has only logged an error.
nan == -1
None == <<>>
Generated_(inf, element) == "all" \in DOMAIN inf[element]

\* _set_data(): the outcome carries the dictionaries as the call leaves them.
_set_data(dat, inf, element, prop, dta, locations, mode) ==
    LET d == dat[element]
        has == prop \in DOMAIN d
        store(arr) == [dat EXCEPT ![element] = Put(d, prop, arr)]
        full(v) == [i \in DOMAIN inf[element]["all"] |-> v]
        inrange(arr) == \A j \in DOMAIN locations : locations[j] \in DOMAIN arr
        \* arr[locations] = vals: of a repeated location the last value stays
        assign(arr, vals) ==
            [i \in DOMAIN arr |->
               IF \E j \in DOMAIN locations : locations[j] = i
               THEN LET j == MaxOf({k \in DOMAIN locations : locations[k] = i})
                    IN IF Len(vals) = 1 THEN vals[1] ELSE vals[j]
               ELSE arr[i]]
        put(arr, vals) ==
            IF inrange(arr) THEN Ok(store(assign(arr, vals)))
            ELSE Raise("IndexError", store(arr))
        fresh(vals) ==
            IF Generated_(inf, element) THEN put(full(nan), vals)
            ELSE Raise("KeyError", dat)
    IN IF mode = "remove"
       THEN IF dta = <<>> /\ has
            THEN IF locations # Blank
                 THEN IF inrange(d[prop]) THEN Ok(store(assign(d[prop], <<nan>>)))
                      ELSE Ok(dat)
                 ELSE Ok([dat EXCEPT ![element] = [k \in DOMAIN d \ {prop} |-> d[k]]])
            ELSE Ok(dat)
       ELSE IF Len(dta) = 1
       THEN IF locations # Blank
            THEN IF ~has \/ mode = "overwrite" THEN fresh(dta)
                 ELSE IF mode = "merge" /\ Len(d[prop]) = 1
                 THEN IF Generated_(inf, element) THEN put(full(d[prop][1]), dta)
                      ELSE Raise("KeyError", dat)
                 ELSE put(d[prop], dta)
            ELSE IF ~has \/ mode = "overwrite" THEN Ok(store(dta))
                 ELSE Ok(dat)
       ELSE IF locations # Blank
       THEN IF Len(locations) = Len(dta)
            THEN IF ~has \/ mode = "overwrite" THEN fresh(dta)
                 ELSE put(d[prop], dta)
            ELSE Ok(dat)
       ELSE IF ~Generated_(inf, element) \/ Len(dta) = Len(inf[element]["all"])
       THEN Ok(store(dta))
       ELSE Ok(dat)

_get_data(dat, inf, element, prop, locations) ==
    LET d == dat[element]
        has == prop \in DOMAIN d
    IN IF locations # Blank
       THEN IF ~has THEN Ok(None)
            ELSE IF Len(d[prop]) = 1
            THEN IF ~Generated_(inf, element) THEN Ok(None)
                 ELSE IF MaxOf(Values(locations)) <= Len(inf[element]["all"])
                 THEN Ok(d[prop])
                 ELSE Ok(None)
            ELSE IF \A j \in DOMAIN locations : locations[j] \in DOMAIN d[prop]
            THEN Ok([j \in DOMAIN locations |-> d[prop][locations[j]]])
            ELSE Ok(None)
       ELSE IF has THEN Ok(d[prop]) ELSE Ok(None)

\* get_data(prop, pores, throats) with the default mode ''
GetData(dat, inf, prop, ps, ts) ==
    LET of(element, locations) ==
            IF locations = All
            THEN LET ind == _get_indices(inf, element, <<"all">>, TRUE, "union")
                 IN IF ind.err # "" THEN ind
                    ELSE _get_data(dat, inf, element, prop, ind.val)
            ELSE _get_data(dat, inf, element, prop, locations)
    IN IF ps # <<>> THEN of("pore", ps)
       ELSE IF ts # <<>> THEN of("throat", ts)
       ELSE Ok(None)

get_data(prop, ps, ts) ==
    /\ toolsRet' = [op |-> "get_data", prop |-> prop, pores |-> ps, throats |-> ts]
                   @@ GetData(data, info, prop, ps, ts)
    /\ UNCHANGED <<info, data, engine, relperm>>

\* set_data(prop, data, pores, throats, mode): data is a list of values, a
\* scalar being the list of one value and the default '' the empty list
set_data(prop, dta, ps, ts, mode) ==
    LET given(dat, element, locations) ==
            IF locations = <<>> THEN Ok(dat)
            ELSE IF locations = All
            THEN IF Len(dta) <= 1
                 THEN _set_data(dat, info, element, prop, dta, Blank, mode)
                 ELSE LET ind == _get_indices(info, element, <<"all">>, TRUE, "union")
                      IN IF ind.err # "" THEN Raise(ind.err, dat)
                         ELSE _set_data(dat, info, element, prop, dta, ind.val, mode)
            ELSE _set_data(dat, info, element, prop, dta, locations, mode)
        first == given(data, "pore", ps)
        second == IF first.err # "" THEN first ELSE given(first.val, "throat", ts)
    IN /\ data' = second.val
       /\ toolsRet' = [op |-> "set_data", prop |-> prop, data |-> dta, pores |-> ps,
                       throats |-> ts, mode |-> mode, err |-> second.err]
       /\ UNCHANGED <<info, engine, relperm>>

\* ------------------------------------------------------- the specification
PointSeqs(n) == UNION {[1..k -> Pressures] : k \in 0..n}
Ascending(pts) == \A i \in 1..(Len(pts) - 1) : pts[i] <= pts[i + 1]
AscendingSeqs(n) == {pts \in PointSeqs(n) : Ascending(pts)}
ModeArgs == {"", "bond", "site", "other"}
AccessArgs == {"none", "true", "false"}
QueryPressures == 0..MaxP

\* Spec: every operation in any order, on two phases: entry pressures that
\* rise along the ring, and entry pressures that alternate.
InitTwo ==
    InitOn({[b \in Bonds |-> IF b <= MaxP THEN b ELSE MaxP],
            [b \in Bonds |-> IF b % 2 = 0 THEN MaxP ELSE (b + 1) \div 2]})

Next ==
    \/ reset
    \/ \E al \in AccessArgs, m \in ModeArgs : setup(al, m, "", "", "", "")
    \/ \E s \in Sites : Cardinality(inlets \cup {s}) <= MaxInlets /\ set_inlets({s})
    \/ \E s \in Sites : Cardinality(outlets \cup {s}) <= MaxInlets /\ set_outlets({s})
    \/ RunFail
    \/ \E pts \in PointSeqs(MaxPoints) : RunStart(pts)
    \/ RunStep
    \/ RunFinish
    \/ \E Pc \in QueryPressures : Results(Pc)

Spec == InitTwo /\ [][Next]_vars

\* SpecSweep: runs that start from the cleared Invasion State, on every phase.
NextSweep ==
    \/ reset
    \/ \E al \in AccessArgs, m \in {"bond", "site"} : setup(al, m, "", "", "", "")
    \/ \E s \in Sites : Cardinality(inlets \cup {s}) <= SweepInlets /\ set_inlets({s})
    \/ \E pts \in AscendingSeqs(SweepPoints) : IsInf(pinv) /\ IsInf(tinv) /\ RunStart(pts)
    \/ RunStep
    \/ RunFinish

SpecSweep == Init /\ [][NextSweep]_vars

\* SpecOutlets: runs that start from the cleared Invasion State with inlets
\* and outlets, and the percolation threshold read after them, on three
\* phases: the two of Spec and the uniform entry pressure 1.
InitThree ==
    InitOn({[b \in Bonds |-> IF b <= MaxP THEN b ELSE MaxP],
            [b \in Bonds |-> IF b % 2 = 0 THEN MaxP ELSE (b + 1) \div 2],
            [b \in Bonds |-> 1]})

NextOutlets ==
    \/ reset
    \/ \E al \in AccessArgs, m \in {"bond", "site"} : setup(al, m, "", "", "", "")
    \/ \E s \in Sites : Cardinality(inlets \cup {s}) <= MaxInlets /\ set_inlets({s})
    \/ \E s \in Sites : Cardinality(outlets \cup {s}) <= SweepInlets /\ set_outlets({s})
    \/ \E pts \in AscendingSeqs(SweepPoints) : IsInf(pinv) /\ IsInf(tinv) /\ RunStart(pts)
    \/ RunStep
    \/ RunFinish
    \/ get_percolation_threshold

SpecOutlets == InitThree /\ [][NextOutlets]_vars

\* SpecConfig: an engine constructed with or without volume keys in its
\* settings, on a phase that holds or lacks each capillary-pressure array;
\* setup() is called with every combination of arguments.
KeyArgs(k) == {"", k, "missing.key"}
VolumeArgs == {<<"", "">>, <<"pore.volume", "throat.volume">>}

InitConfig ==
    /\ RpInit
    /\ ToolsInit
    /\ throatPc \in {NoData, [b \in Bonds |-> IF b <= MaxP THEN b ELSE MaxP]}
    /\ porePc \in {NoData, [s \in Sites |-> IF s % 2 = 0 THEN MaxP ELSE (s + 1) \div 2]}
    /\ settings \in {[default_settings EXCEPT !.pore_volume = v[1], !.throat_volume = v[2]] :
                       v \in VolumeArgs}
    /\ entry = [throat |-> NoData, pore |-> NoData]
    /\ pinv = [s \in Sites |-> Inf]
    /\ tinv = [b \in Bonds |-> Inf]
    /\ pseq = [s \in Sites |-> -1]
    /\ tseq = [b \in Bonds |-> -1]
    /\ inlets = {}
    /\ outlets = {}
    /\ presidual = {}
    /\ tresidual = {}
    /\ pc = "idle"
    /\ points = <<>>
    /\ sweep = <<>>
    /\ ret = Idle

NextConfig ==
    \/ \E al \in AccessArgs, m \in {"", "bond", "site"},
          tk \in KeyArgs("throat.capillary_pressure"),
          pk \in KeyArgs("pore.capillary_pressure"), v \in VolumeArgs :
          setup(al, m, tk, pk, v[1], v[2])
    \/ \E s \in 1..MaxInlets : set_inlets({s})
    \/ RunFail
    \/ \E pts \in AscendingSeqs(MaxPoints) : IsInf(pinv) /\ IsInf(tinv) /\ RunStart(pts)
    \/ RunStep
    \/ RunFinish
    \/ get_percolation_data

SpecConfig == InitConfig /\ [][NextConfig]_vars

\* SpecCount: runs from the cleared Invasion State whose points are
\* generated from a count, on phases with entry pressures 0.5, 1 and 2.
CountPressures == {One \div 2, One, 2 * One}
CountArrays ==
    {f \in [Bonds -> CountPressures] : \A k \in 1..(NumSites - 1) : LexLeq(f, Rot(f, k))}
StartArgs == {<<>>, <<One>>}
StopArgs == {<<>>, <<2 * One>>}

InitCount == InitOn(CountArrays)

NextCount ==
    \/ reset
    \/ \E al \in AccessArgs, m \in {"bond", "site"} : setup(al, m, "", "", "", "")
    \/ \E s \in Sites : Cardinality(inlets \cup {s}) <= MaxInlets /\ set_inlets({s})
    \/ \E n \in 1..MaxCount, start \in StartArgs, stop \in StopArgs :
          IsInf(pinv) /\ IsInf(tinv) /\ RunStartCount(n, start, stop)
    \/ RunStep
    \/ RunFinish

SpecCount == InitCount /\ [][NextCount]_vars

\* SpecRelPerm: one setup() call of a RelativePermeability object, with up
\* to MaxPairs axis pairs in any order; every flow solve returns a
\* permeability of 1..MaxPerm or raises.
PermValues == 1..MaxPerm
VectArgs ==
    {v \in UNION {[1..n -> AxisPairs] : n \in 1..MaxPairs} :
        \A j1 \in DOMAIN v, j2 \in DOMAIN v : j1 # j2 => v[j1] # v[j2]}

InitRelPerm == InitOn({[b \in Bonds |-> 1]})

NextRelPerm ==
    \/ \E v \in VectArgs : rp_setup(v)
    \/ \E dim \in Axes, val_wp \in PermValues, val_nwp \in PermValues :
          baseline(dim, val_wp, val_nwp)
    \/ \E dim \in Axes : baseline_fails(dim)
    \/ \E first \in 1..(NumSat + 1) : pair_start(first)
    \/ \E Keff_mp_wp \in PermValues, Keff_mp_nwp \in PermValues :
          saturation_point(Keff_mp_wp, Keff_mp_nwp)
    \/ saturation_point_fails
    \/ rp_return

SpecRelPerm == InitRelPerm /\ [][NextRelPerm]_vars

\* SpecPercolating: fresh runs with inlets and outlets as in SpecOutlets, and
\* is_percolating at every pressure from below the least to above the
\* largest threshold.
NextPercolating ==
    \/ \E al \in AccessArgs, m \in {"bond", "site"} : setup(al, m, "", "", "", "")
    \/ \E s \in Sites : Cardinality(inlets \cup {s}) <= MaxInlets /\ set_inlets({s})
    \/ \E s \in Sites : Cardinality(outlets \cup {s}) <= SweepInlets /\ set_outlets({s})
    \/ \E pts \in AscendingSeqs(MaxPoints) : IsInf(pinv) /\ IsInf(tinv) /\ RunStart(pts)
    \/ RunStep
    \/ RunFinish
    \/ \E p \in 0..(MaxP + 1) : is_percolating(p)

SpecPercolating == InitThree /\ [][NextPercolating]_vars

\* SpecLabels: the label dictionaries of a Tools object.  The generator of the
\* network gives the label 'all' to the whole list of its pores and of its
\* throats; the other calls give, take and query the labels 'a' and 'b'.
Generated == [pore |-> NumPores, throat |-> NumThroats]
WholeList(element) == [i \in 1..Generated[element] |-> i]
LocLists(element) ==
    UNION {[1..k -> 1..Generated[element]] : k \in 1..MaxLocs} \cup {All}
LabelNames == [pore |-> {"a", "b"}, throat |-> {"a"}]
LabelLists(element) ==
    UNION {[1..k -> LabelNames[element]] : k \in 0..MaxLabels} \cup {<<"all">>}
Modes == {"union", "intersection", "not_intersection", "none"}
InfoModes == {"merge", "overwrite", "remove"}

InitLabels == InitOn({[b \in Bonds |-> 1]})

NextLabels ==
    \/ set_info("all", WholeList("pore"), WholeList("throat"), "merge")
    \/ \E label \in LabelNames["pore"], ps \in LocLists("pore"), mode \in InfoModes :
          set_info(label, ps, <<>>, mode)
    \/ \E label \in LabelNames["throat"], ts \in LocLists("throat"), mode \in InfoModes :
          set_info(label, <<>>, ts, mode)
    \/ \E label \in LabelNames["pore"], mode \in InfoModes :
          set_info(label, <<>>, <<>>, mode)
    \/ \E labels \in LabelLists("pore"), mode \in Modes : pores(labels, TRUE, mode)
    \/ \E labels \in LabelLists("throat"), mode \in Modes : throats(labels, TRUE, mode)
    \/ \E labels \in LabelLists("pore"), mode \in Modes : num_pores(labels, mode)
    \/ \E labels \in LabelLists("throat"), mode \in Modes : num_throats(labels, mode)

SpecLabels == InitLabels /\ [][NextLabels]_vars


\* SpecData: the property dictionaries of a Tools object, for one property.
DataArgs == UNION {[1..k -> 1..MaxVal] : k \in 1..MaxLocs}
DataModes == {"merge", "overwrite"}

InitData == InitOn({[b \in Bonds |-> 1]})

NextData ==
    \/ set_info("all", WholeList("pore"), WholeList("throat"), "merge")
    \/ \E dta \in DataArgs, ps \in LocLists("pore"), mode \in DataModes :
          set_data("p", dta, ps, <<>>, mode)
    \/ \E dta \in {<<1>>, <<1, MaxVal>>}, ts \in LocLists("throat") :
          set_data("p", dta, <<>>, ts, "merge")
    \/ \E ps \in LocLists("pore") : set_data("p", <<>>, ps, <<>>, "remove")
    \/ \E ps \in LocLists("pore") : get_data("p", ps, <<>>)
    \/ \E ts \in LocLists("throat") : get_data("p", <<>>, ts)

SpecData == InitData /\ [][NextData]_vars

\* ------------------------------------------------------------------ claims
RunDone == pc = "idle" /\ ret.op = "run" /\ ret.err = ""
Thresholds == {sweep[k] : k \in 1..Len(sweep)}
Finite(inv) == {inv[e] : e \in DOMAIN inv} \ {Inf}

\* Connectivity by cuts: a and b are joined over the bonds of B when no set
\* of sites holds a, leaves out b and has no bond of B leaving it.
Linked(a, b, B) ==
    \A S \in SUBSET Sites :
        (a \in S /\ b \notin S) =>
            \E x \in B : (conns[x][1] \in S) # (conns[x][2] \in S)

OpenBonds(t) ==
    IF settings.mode = "bond"
    THEN {b \in Bonds : throatPc[b] <= t}
    ELSE {b \in Bonds : porePc[conns[b][1]] <= t /\ porePc[conns[b][2]] <= t}
OpenSites(t) ==
    IF settings.mode = "bond"
    THEN {s \in Sites : \E b \in OpenBonds(t) : s \in {conns[b][1], conns[b][2]}}
    ELSE {s \in Sites : porePc[s] <= t}
SiteAccessible(s, t) ==
    /\ s \in OpenSites(t)
    /\ \E i \in inlets \cap OpenSites(t) : Linked(i, s, OpenBonds(t))
BondAccessible(b, t) ==
    /\ b \in OpenBonds(t)
    /\ \E i \in inlets \cap OpenSites(t) : Linked(i, conns[b][1], OpenBonds(t))
FirstThreshold(T) == IF T = {} THEN Inf ELSE MinOf(T)

\* C1: after an access-limited run over an ascending threshold sequence that
\* started from the cleared state, the invasion pressure of every site and
\* bond is the smallest threshold of the sequence at which the element lies in
\* an open cluster holding an inlet, and +infinity when there is none.
C1_InvasionPressure ==
    (RunDone /\ settings.access_limited /\ Ascending(sweep)) =>
        /\ \A s \in Sites :
              pinv[s] = FirstThreshold({t \in Thresholds : SiteAccessible(s, t)})
        /\ \A b \in Bonds :
              tinv[b] = FirstThreshold({t \in Thresholds : BondAccessible(b, t)})

\* an access-limited run that invaded sites at two thresholds, passed over a
\* bond that was open but cut off from the inlets, and left a bond uninvaded
C1_Witness ==
    /\ RunDone /\ settings.access_limited /\ Ascending(sweep)
    /\ Cardinality(Finite(pinv)) >= 2
    /\ \E b \in Bonds : \E t \in Thresholds : b \in OpenBonds(t) /\ t < tinv[b]
    /\ \E b \in Bonds : tinv[b] = Inf

\* C2: unless reset() is called, an invasion pressure that has become finite
\* never changes again, in the same run or in a later one.
C2_FirstInvadedWins ==
    [][ret'.op # "reset" =>
          /\ \A s \in Sites : pinv[s] # Inf => pinv'[s] = pinv[s]
          /\ \A b \in Bonds : tinv[b] # Inf => tinv'[b] = tinv[b]]_vars

\* a later run has applied a threshold that labels a site invaded by an
\* earlier run at another pressure
C2_Witness ==
    /\ pc = "loop" /\ points = <<>> /\ sweep # <<>>
    /\ \E s \in Sites :
          /\ pinv[s] \notin Thresholds \cup {Inf}
          /\ Labels(settings, entry, inlets, sweep[Len(sweep)]).sites[s] >= 0

\* C3: in a run over an ascending sequence, a pressure written is never below
\* one written before it, and every finite invasion pressure is a threshold of
\* the sweep at every point of the run.
C3_AssignmentOrder ==
    [][(pc = "loop" /\ Ascending(sweep)) =>
          /\ \A s \in Sites : pinv'[s] # pinv[s] =>
                \A v \in Finite(pinv) \cup Finite(tinv) : v <= pinv'[s]
          /\ \A b \in Bonds : tinv'[b] # tinv[b] =>
                \A v \in Finite(pinv) \cup Finite(tinv) : v <= tinv'[b]
          /\ Finite(pinv') \cup Finite(tinv') \subseteq Thresholds]_vars

\* a run in progress that has written two different pressures
C3_Witness ==
    /\ pc = "loop" /\ Ascending(sweep)
    /\ Cardinality(Finite(pinv) \cup Finite(tinv)) >= 2

\* The 0-based rank of v among the values of V.
Rank(v, V) == Cardinality({x \in V : x < v})

\* C4: after run(), an invaded element's invasion sequence is the rank of its
\* pressure among the finite pressures assigned (to the elements of its kind),
\* and an element never invaded has invasion sequence -1.
C4_SequenceIsRank ==
    RunDone =>
        /\ \A s \in Sites :
              pseq[s] = IF pinv[s] = Inf THEN -1 ELSE Rank(pinv[s], Finite(pinv))
        /\ \A b \in Bonds :
              tseq[b] = IF tinv[b] = Inf THEN -1 ELSE Rank(tinv[b], Finite(tinv))

\* C5: after run(), for any two elements with finite pressures, sites or
\* bonds, the one with the lower pressure has no higher sequence number.
C5_SequenceOrder ==
    RunDone =>
        LET P == {<<pinv[s], pseq[s]>> : s \in Sites} \cup
                 {<<tinv[b], tseq[b]>> : b \in Bonds}
        IN \A a \in P, b \in P :
              (a[1] < b[1] /\ b[1] # Inf) => a[2] <= b[2]

Occupied(occ) == {e \in DOMAIN occ : occ[e] = 1}

\* C6: results(Pc) returns occupancy 1 for exactly the elements whose invasion
\* pressure is at most Pc and 0 for the others, changes nothing of the
\* Invasion State, and returns the same when called again with the same Pc.
C6_ResultsPure ==
    [][ret'.op = "results" =>
          /\ Occupied(ret'.occupancy.pore) = {s \in Sites : pinv[s] <= ret'.Pc}
          /\ Occupied(ret'.occupancy.throat) = {b \in Bonds : tinv[b] <= ret'.Pc}
          /\ \A s \in Sites : ret'.occupancy.pore[s] \in {0, 1}
          /\ \A b \in Bonds : ret'.occupancy.throat[b] \in {0, 1}
          /\ UNCHANGED <<invasion, masks>>
          /\ (ret.op = "results" /\ ret.Pc = ret'.Pc) =>
                ret'.occupancy = ret.occupancy]_vars

\* a query at a pressure that is the invasion pressure of one site, with
\* another site above it
C6_Witness ==
    /\ ret.op = "results"
    /\ \E s \in Sites : pinv[s] = ret.Pc
    /\ \E s \in Sites : ret.occupancy.pore[s] = 0
    /\ \E b \in Bonds : ret.occupancy.throat[b] = 1

\* C7: for p1 < p2, every site and bond occupied in results(p1) is occupied
\* in results(p2).
C7_ResultsMonotonic ==
    \A p1 \in QueryPressures, p2 \in QueryPressures \cup {Inf} :
        p1 < p2 =>
            /\ Occupied(results(p1, pinv, tinv).pore)
                  \subseteq Occupied(results(p2, pinv, tinv).pore)
            /\ Occupied(results(p1, pinv, tinv).throat)
                  \subseteq Occupied(results(p2, pinv, tinv).throat)

\* a state queried at a pressure where some bonds are occupied and a higher
\* pressure occupies more
C7_Witness ==
    /\ ret.op = "results"
    /\ Occupied(ret.occupancy.throat) # {}
    /\ \E p2 \in QueryPressures :
          /\ ret.Pc < p2
          /\ Occupied(results(p2, pinv, tinv).throat) # Occupied(ret.occupancy.throat)

BadConfig ==
    \/ settings.mode \notin {"bond", "site"}
    \/ settings.access_limited /\ inlets = {}

\* C8: a run() call made with access_limited set and no inlet, or with a mode
\* that is neither 'bond' nor 'site', raises an error and leaves the invasion
\* pressures and sequences as they were.
C8_RunFails ==
    [][(pc = "idle" /\ ret'.op \in {"run", "running"} /\ BadConfig) =>
          /\ ret'.op = "run"
          /\ ret'.err # ""
          /\ settings.mode \notin {"bond", "site"} =>
                ret'.err = "Percolation type has not been set"
          /\ UNCHANGED invasion]_vars

\* a failed run on an engine that holds invasion pressures of an earlier run
C8_Witness ==
    /\ ret.op = "run" /\ ret.err = "Inlet pores must be specified first"
    /\ \E s \in Sites : pinv[s] # Inf

Cleared ==
    /\ IsInf(pinv) /\ IsInf(tinv)
    /\ \A s \in Sites : pseq[s] = -1
    /\ \A b \in Bonds : tseq[b] = -1
    /\ inlets = {} /\ outlets = {} /\ presidual = {} /\ tresidual = {}

\* C9: reset() can be called whenever no call is running, and leaves every
\* invasion pressure +infinity, every invasion sequence -1 and the inlets,
\* outlets and residual masks all false.
C9_ResetClears ==
    /\ pc = "idle" => ENABLED reset
    /\ ret.op = "reset" => Cleared

\* a reset after a run on an engine that was set up
C9_Witness ==
    /\ ret.op = "reset" /\ ret.from = "RUN"
    /\ settings # default_settings

\* C10 as stated: reset() from the RUN state leaves the settings unchanged
\* and run() can be called again and succeed without another setup().
C10_Original ==
    [][(pc = "idle" /\ Lifecycle = "RUN" /\ ret'.op = "reset") =>
          /\ settings' = settings
          /\ RunCheck(settings', throatPc', porePc', inlets') = ""]_vars

\* C10 as amended: reset() from the RUN state leaves the settings unchanged;
\* it clears the inlets, so run() succeeds again without another setup() at
\* once when access_limited is false and after the inlets are set again when
\* it is true.
C10_ResetRepeatable ==
    [][(pc = "idle" /\ Lifecycle = "RUN" /\ ret'.op = "reset") =>
          /\ settings' = settings
          /\ inlets' = {}
          /\ ~settings'.access_limited =>
                RunCheck(settings', throatPc', porePc', inlets') = ""
          /\ \A s \in Sites :
                RunCheck(settings', throatPc', porePc', inlets' \cup {s}) = ""]_vars

\* a reset from the RUN state of an engine set up away from the defaults
C10_Witness ==
    /\ ret.op = "reset" /\ ret.from = "RUN"
    /\ settings.mode = "site" /\ settings.access_limited

\* The thresholds of the sweep at which an outlet lies in an open cluster
\* that holds an inlet.
Percolating == {t \in Thresholds : \E o \in outlets : SiteAccessible(o, t)}

\* C11: get_percolation_threshold() raises when no inlet is set, when no
\* outlet is set and when access_limited is false; otherwise it returns the
\* smallest invasion pressure of the outlet sites, and read after an
\* access-limited run from the cleared state that is the lowest threshold of
\* the sweep at which an inlet and an outlet are in one invaded cluster.
C11_PercolationThreshold ==
    [][ret'.op = "get_percolation_threshold" =>
          /\ (inlets = {} \/ outlets = {} \/ ~settings.access_limited) <=> ret'.err # ""
          /\ ret'.err = "" =>
                /\ \E o \in outlets : ret'.thresh = pinv[o]
                /\ \A o \in outlets : ret'.thresh <= pinv[o]
                /\ RunDone => ret'.thresh = FirstThreshold(Percolating)
          /\ UNCHANGED <<invasion, masks, settings>>]_vars

\* the threshold read after a run in which the inlet reached one outlet at
\* the second threshold of the sweep and another outlet later or never
C11_Witness ==
    /\ ret.op = "get_percolation_threshold" /\ ret.err = ""
    /\ Len(sweep) >= 2 /\ ret.thresh \in Thresholds /\ ret.thresh > sweep[1]
    /\ \E o \in outlets : pinv[o] > ret.thresh

\* C12: get_percolation_data() returns Pcap = 0 followed by the finite
\* invasion pressures of the sites and bonds, each once and ascending, without
\* +infinity, and Snwp[i] = the volume of the sites and bonds with invasion
\* pressure at most Pcap[i] over the volume of all sites and bonds; a site
\* weighs 1 and a bond 0 when no volume property is configured.
C12_PercolationData ==
    (ret.op = "get_percolation_data" /\ ret.err = "") =>
        LET Pv == IF settings.pore_volume = ""
                  THEN [s \in Sites |-> 1] ELSE NetGet(settings.pore_volume)
            Tv == IF settings.throat_volume = ""
                  THEN [b \in Bonds |-> 0] ELSE NetGet(settings.throat_volume)
            Pcap == ret.data.Pcap
            Snwp == ret.data.Snwp
        IN /\ Pcap = <<0>> \o UniqueOf(Finite(pinv) \cup Finite(tinv))
           /\ DOMAIN Snwp = DOMAIN Pcap
           /\ \A i \in DOMAIN Pcap :
                 Snwp[i] = <<SumOver(Pv, {s \in Sites : pinv[s] <= Pcap[i]})
                             + SumOver(Tv, {b \in Bonds : tinv[b] <= Pcap[i]}),
                             SumOver(Pv, Sites) + SumOver(Tv, Bonds)>>

\* The entry-pressure property that mode m needs is absent on the phase.
RequiredAbsent(st) ==
    \/ st.mode = "bond" /\ PhaseGet(throatPc, porePc, st.throat_entry_pressure) = NoData
    \/ st.mode = "site" /\ PhaseGet(throatPc, porePc, st.pore_entry_pressure) = NoData

\* C13: setup() fails whenever the entry-pressure property that the mode it
\* configures needs is absent on the phase, whatever arguments it is given,
\* the entry-pressure key included or left out.
C13_SetupFailsFast ==
    [][(ret'.op = "setup" /\ RequiredAbsent(settings')) => ret'.err # ""]_vars

\* C14: after setup(pore_volume=kp, throat_volume=kt) the volume keys of the
\* settings are kp and kt, and get_percolation_data() weights the sites and
\* bonds by those properties.
C14_SetupRecordsVolumes ==
    [][(ret'.op = "setup" /\ ret'.err = "" /\ ret'.pore_volume # ""
            /\ ret'.throat_volume # "") =>
          /\ settings'.pore_volume = ret'.pore_volume
          /\ settings'.throat_volume = ret'.throat_volume
          /\ Pvol(settings') = NetGet(ret'.pore_volume)
          /\ Tvol(settings') = NetGet(ret'.throat_volume)]_vars

\* An access-limited bond-mode run has just completed, from the cleared
\* state, with the single threshold t >= 1 on a phase of uniform throat entry
\* pressure 1, and outlets are set.
UniformRunDone ==
    /\ RunDone /\ settings.mode = "bond" /\ settings.access_limited
    /\ \A b \in Bonds : throatPc[b] = 1
    /\ Len(sweep) = 1 /\ sweep[1] >= 1
    /\ inlets # {} /\ outlets # {}

\* C15 as stated: after such a run every site and bond is invaded and
\* get_percolation_threshold() returns 1.
C15_Original ==
    [][(UniformRunDone /\ ret'.op = "get_percolation_threshold") =>
          /\ Finite(pinv) # {} /\ Inf \notin {pinv[s] : s \in Sites}
          /\ Inf \notin {tinv[b] : b \in Bonds}
          /\ ret'.err = "" /\ ret'.thresh = 1]_vars

\* C15 as amended: after such a run every site and bond is invaded and
\* get_percolation_threshold() returns the threshold t that was applied,
\* which is 1 only when t = 1.
C15_UniformPercolation ==
    [][(UniformRunDone /\ ret'.op = "get_percolation_threshold") =>
          /\ \A s \in Sites : pinv[s] = sweep[1]
          /\ \A b \in Bonds : tinv[b] = sweep[1]
          /\ ret'.err = "" /\ ret'.thresh = sweep[1]]_vars

\* the threshold read after a run at the single threshold 2 on the uniform
\* phase, with an outlet that is not an inlet
C15_Witness ==
    /\ ret.op = "get_percolation_threshold" /\ ret.err = "" /\ ret.thresh = 2
    /\ settings.mode = "bond" /\ \A b \in Bonds : throatPc[b] = 1
    /\ sweep = <<2>> /\ outlets \ inlets # {}
    /\ \A b \in Bonds : tinv[b] = 2

\* C16: when run() is given a count n (of two points or more) and neither
\* start nor stop, the sequence it generates has n points, increases, starts
\* at 0.95 times the least and ends at 1.05 times the greatest entry pressure
\* of the active mode, whatever the (positive) entry pressures are.
C16_GeneratedPoints ==
    (pc = "loop" /\ ret.op = "running" /\ ret.num >= 2
        /\ ret.start = <<>> /\ ret.stop = <<>>) =>
        LET E == IF settings.mode = "bond" THEN throatPc ELSE porePc
        IN /\ Len(sweep) = ret.num
           /\ \A i \in 1..(Len(sweep) - 1) : sweep[i] <= sweep[i + 1]
           /\ sweep[1] < sweep[Len(sweep)]
           /\ 100 * sweep[1] = 95 * MinOf(Values(E))
           /\ 100 * sweep[Len(sweep)] = 105 * MaxOf(Values(E))

\* The pair whose saturation sweep is running, and whether the target
\* saturation the loop is at has an invaded bond.
SweepKey == rpSettings.input_vect[rpFrame.i]
Invaded == \E b \in DOMAIN ip_results(rpFrame.k).throat : ip_results(rpFrame.k).throat[b] = 1
PointDone == rpFrame.pc = "sweep" /\ rpFrame'.pc # "idle"
Last(q) == q[Len(q)]

\* C17: a target saturation of the sweep is recorded if and only if its
\* occupancy has an invaded bond; a point with none changes neither the
\* occupancy of the phases nor their conduit models, creates and runs no flow
\* solver, records nothing, and the sweep goes on to the next point.
C17_DegenerateSkipped ==
    [][PointDone =>
          /\ Invaded =>
                /\ rpSettings'.sat[SweepKey] = Append(rpFrame.Snwparr, Sarr[rpFrame.k])
                /\ Len(rpSettings'.relperm_wp[SweepKey]) = Len(rpFrame.relperm_wp) + 1
                /\ Len(rpSettings'.relperm_nwp[SweepKey]) = Len(rpFrame.relperm_nwp) + 1
          /\ ~Invaded =>
                /\ rpSettings'.sat[SweepKey] = rpFrame.Snwparr
                /\ rpSettings'.relperm_wp[SweepKey] = rpFrame.relperm_wp
                /\ rpSettings'.relperm_nwp[SweepKey] = rpFrame.relperm_nwp
                /\ UNCHANGED <<phases, project>>
                /\ IF rpFrame.k < NumSat
                   THEN rpFrame'.pc = "sweep" /\ rpFrame'.k = rpFrame.k + 1
                   ELSE rpFrame'.pc = "pair" /\ rpFrame'.i = rpFrame.i + 1]_vars

\* a sweep that skipped its first target saturation and recorded the second
C17_Witness ==
    /\ rpFrame.pc = "sweep" /\ rpFrame.k = 3 /\ ip.first = 2
    /\ rpSettings.sat[SweepKey] = <<Sarr[2]>>
    /\ phases.regenerated = 2 /\ project.created = 2 * Cardinality(DOMAIN rpSettings.perm_wp) + 2

\* C18: for every axis pair the saturation list and the two relative-
\* permeability lists held in the session state have the same length, and the
\* saturations are in strictly increasing order.
C18_ListsAligned ==
    \A key \in DOMAIN rpSettings.sat :
        /\ key \in DOMAIN rpSettings.relperm_wp \cap DOMAIN rpSettings.relperm_nwp
        /\ Len(rpSettings.relperm_wp[key]) = Len(rpSettings.sat[key])
        /\ Len(rpSettings.relperm_nwp[key]) = Len(rpSettings.sat[key])
        /\ \A j \in 1..(Len(rpSettings.sat[key]) - 1) :
              rpSettings.sat[key][j][1] < rpSettings.sat[key][j + 1][1]

\* C19: each relative permeability recorded for a pair and a phase is the
\* effective permeability of that point's flow solve of the phase over the
\* baseline permeability of the phase along the flow axis of the pair, and
\* once the first pair is started the baselines of the flow axes of all the
\* pairs are there.
C19_Normalised ==
    [][/\ (PointDone /\ Invaded) =>
             LET flow == SweepKey[2]
                 wp == Last(rpSettings'.relperm_wp[SweepKey])
                 nwp == Last(rpSettings'.relperm_nwp[SweepKey])
             IN /\ wp[2] # 0 /\ nwp[2] # 0
                /\ wp[1] * rpSettings.perm_wp[flow] = project'.Keff.wp * wp[2]
                /\ nwp[1] * rpSettings.perm_nwp[flow] = project'.Keff.nwp * nwp[2]
       /\ rpFrame.pc \in {"pair", "sweep"} =>
             \A j \in DOMAIN rpSettings.input_vect :
                 rpSettings.input_vect[j][2] \in
                     DOMAIN rpSettings.perm_wp \cap DOMAIN rpSettings.perm_nwp]_vars

\* a point recorded for a pair with flow axis y, where the baselines of the
\* two phases and of the two axes differ and differ from the solve's results
C19_Witness ==
    /\ rpFrame.pc = "sweep" /\ SweepKey = <<"x", "y">> /\ rpFrame.relperm_wp # <<>>
    /\ DOMAIN rpSettings.perm_wp = {"x", "y"}
    /\ rpSettings.perm_wp["x"] # rpSettings.perm_wp["y"]
    /\ rpSettings.perm_wp["y"] # rpSettings.perm_nwp["y"]
    /\ Last(rpFrame.relperm_wp) = <<1, 2>> /\ Last(rpFrame.relperm_nwp) = <<2, 1>>

\* C20: when a flow solve raises at a saturation point the caller gets the
\* failure, the session lists of the earlier points and pairs are as they
\* were, nothing is recorded for the failed point, and the lists of the pair
\* have the same length.
C20_FailureIsolated ==
    [][(rpFrame.pc = "sweep" /\ rpFrame'.pc = "idle") =>
          /\ rpRet'.err = "SolverFailure"
          /\ rpSettings'.sat = rpSettings.sat
          /\ rpSettings'.relperm_wp = rpSettings.relperm_wp
          /\ rpSettings'.relperm_nwp = rpSettings.relperm_nwp
          /\ SweepKey \in DOMAIN rpSettings'.sat =>
                /\ Len(rpSettings'.sat[SweepKey]) = Len(rpSettings'.relperm_wp[SweepKey])
                /\ Len(rpSettings'.sat[SweepKey]) = Len(rpSettings'.relperm_nwp[SweepKey])]_vars

\* The pass of the sweep over the target saturation 0, which no bond is
\* invaded at.
ZeroPointDone == PointDone /\ rpFrame.k = 1 /\ ~Invaded

\* C21 as stated: for the target saturation 0 (no invasion) the wetting
\* relative permeability recorded for the pair is 1 and the non-wetting one
\* is 0 or is not recorded.
C21_Original ==
    [][ZeroPointDone =>
          /\ Len(rpSettings'.relperm_wp[SweepKey]) = 1
          /\ rpSettings'.relperm_wp[SweepKey][1][1] = rpSettings'.relperm_wp[SweepKey][1][2]
          /\ \/ rpSettings'.relperm_nwp[SweepKey] = <<>>
             \/ rpSettings'.relperm_nwp[SweepKey][1][1] = 0]_vars

\* C21 as amended: the target saturation 0 with no invaded bond is skipped
\* for both phases: neither a saturation nor a wetting nor a non-wetting
\* relative permeability is recorded for it and no flow is solved, so the
\* lists of the pair begin at the first target saturation with an invaded
\* bond.
C21_SaturationZeroSkipped ==
    [][ZeroPointDone =>
          /\ rpSettings'.sat[SweepKey] = <<>>
          /\ rpSettings'.relperm_wp[SweepKey] = <<>>
          /\ rpSettings'.relperm_nwp[SweepKey] = <<>>
          /\ project'.created = project.created
          /\ rpFrame'.pc = "sweep" /\ rpFrame'.k = 2]_vars

\* a sweep past the target saturation 0 with nothing recorded, on a run
\* whose first invaded bond comes at the last target saturation
C21_Witness ==
    /\ rpFrame.pc = "sweep" /\ rpFrame.k = 2 /\ ip.first = NumSat
    /\ rpFrame.linked /\ rpSettings.sat[SweepKey] = <<>>
    /\ rpSettings.relperm_wp[SweepKey] = <<>>

\* The locations of an element that carry at least one, all, exactly one or
\* none of the labels of a list.
Carried(element, labels, i) == {l \in Values(labels) : info[element][l][i]}
Selection(element, labels, mode) ==
    {i \in DOMAIN info[element]["all"] :
        LET c == Cardinality(Carried(element, labels, i))
        IN CASE mode = "union" -> c >= 1
             [] mode = "intersection" -> c = Cardinality(Values(labels))
             [] mode = "not_intersection" -> c = 1
             [] mode = "none" -> c = 0}

\* C22: pores(labels, mode) and throats(labels, mode) return the locations
\* that carry at least one of the labels ('union'), all of them
\* ('intersection'), exactly one of them ('not_intersection') or none of them
\* ('none'), and num_pores and num_throats return the size of that selection,
\* for every label assignment and every list of existing labels.
C22_LabelSelection ==
    /\ toolsRet.op \in {"pores", "throats"} /\ toolsRet.err = ""
         => Values(toolsRet.val) =
              Selection(toolsRet.element, toolsRet.labels, toolsRet.mode)
    /\ toolsRet.op \in {"num_pores", "num_throats"} /\ toolsRet.err = ""
         => toolsRet.val =
              Cardinality(Selection(toolsRet.element, toolsRet.labels, toolsRet.mode))

\* A set_info call in 'remove' mode that returned, and what it was given.
RemoveDone == toolsRet'.op = "set_info" /\ toolsRet'.mode = "remove" /\ toolsRet'.err = ""
Given(element) == IF element = "pore" THEN toolsRet'.pores ELSE toolsRet'.throats
Labelled(inf, element, label) ==
    IF label \in DOMAIN inf[element]
    THEN {i \in DOMAIN inf[element][label] : inf[element][label][i]}
    ELSE {}

\* C23: set_info(label, mode='remove') takes the label from exactly the given
\* locations and leaves it on all the others; given no locations it removes
\* the whole label, which is then absent from list_pore_labels and
\* list_throat_labels.
C23_RemoveLabel ==
    [][RemoveDone =>
         /\ \A element \in Elements :
               Given(element) # <<>> =>
                 Labelled(info', element, toolsRet'.label) =
                   Labelled(info, element, toolsRet'.label) \
                     (IF Given(element) = All THEN DOMAIN info[element]["all"]
                      ELSE Values(Given(element)))
         /\ Given("pore") = <<>> /\ Given("throat") = <<>> =>
               /\ toolsRet'.label \notin list_pore_labels(info')
               /\ toolsRet'.label \notin list_throat_labels(info')]_vars

\* A set_data call in the default 'merge' mode, the locations it names and
\* the value a property has at a location (nan where it has none).
MergeDone == toolsRet'.op = "set_data" /\ toolsRet'.mode = "merge"
Named(element) ==
    IF Given(element) = All THEN [i \in DOMAIN info[element]["all"] |-> i]
    ELSE Given(element)
NoRepeat(q) == Cardinality(Values(q)) = Len(q)
ValueAt(dat, element, prop, i) ==
    IF prop \notin DOMAIN dat[element] THEN nan
    ELSE IF Len(dat[element][prop]) = 1 THEN dat[element][prop][1]
    ELSE dat[element][prop][i]

\* C24: in the default 'merge' mode, after set_data(prop, v, pores=L) the call
\* get_data(prop, pores=L) returns v for L, and the values of prop outside L
\* are unchanged; the same for throats.  L is a list of distinct locations of
\* the network or 'all', and v is a scalar or has one value per location.
C24_RoundTrip ==
    [][MergeDone =>
         \A element \in Elements :
           (Given(element) # <<>> /\ Generated_(info, element)) =>
             LET L == Named(element)
                 v == toolsRet'.data
                 got == GetData(data', info', toolsRet'.prop,
                                IF element = "pore" THEN Given(element) ELSE <<>>,
                                IF element = "throat" THEN Given(element) ELSE <<>>)
             IN (NoRepeat(L) /\ (Len(v) = 1 \/ Len(v) = Len(L))) =>
                  /\ toolsRet'.err = ""
                  /\ got.err = "" /\ got.val # None
                  /\ \A j \in DOMAIN L :
                        (IF Len(got.val) = 1 THEN got.val[1] ELSE got.val[j]) =
                          (IF Len(v) = 1 THEN v[1] ELSE v[j])
                  /\ \A i \in DOMAIN info[element]["all"] \ Values(L) :
                        ValueAt(data', element, toolsRet'.prop, i) =
                          ValueAt(data, element, toolsRet'.prop, i)]_vars

\* An inlet and an outlet joined by a path of the bonds of B (in site mode, of
\* the bonds between the sites the bonds of B join).
SpanningPath(B, mode) ==
    LET joined == {conns[b][1] : b \in B} \cup {conns[b][2] : b \in B}
        open == IF mode = "bond" THEN B
                ELSE {b \in Bonds : conns[b][1] \in joined /\ conns[b][2] \in joined}
    IN \E i \in inlets \cap joined, o \in outlets \cap joined : Linked(i, o, open)

\* C25: is_percolating(p) raises when the inlets or the outlets are not set;
\* otherwise it returns false without a connectivity check when the least
\* invasion pressure of the outlets exceeds p, and otherwise the result of
\* the connectivity check between inlets and outlets over the bonds whose
\* invasion pressure is below p.
C25_IsPercolating ==
    [][ret'.op = "is_percolating" =>
          /\ (inlets = {} \/ outlets = {}) <=> ret'.err # ""
          /\ ret'.err = "" =>
                ret'.val =
                  IF \A o \in outlets : pinv[o] > ret'.applied_pressure THEN FALSE
                  ELSE SpanningPath({b \in Bonds : tinv[b] < ret'.applied_pressure},
                                    settings.mode)
          /\ UNCHANGED <<invasion, masks, settings>>]_vars

\* is_percolating(p) at the invasion pressure of an outlet: the connectivity
\* check is made and finds no path
C25_Witness ==
    /\ ret.op = "is_percolating" /\ ret.err = "" /\ ~ret.val
    /\ \E o \in outlets : pinv[o] = ret.applied_pressure
    /\ \E b \in Bonds : tinv[b] < ret.applied_pressure

\* C29: after an access-limited run in bond mode with inlets and outlets set,
\* is_percolating(p) is true exactly when p >= get_percolation_threshold(),
\* p equal to the threshold included, and exactly when the bonds results(p)
\* gives as occupied hold a path from an inlet to an outlet.
C29_ThresholdAgrees ==
    [][(/\ RunDone /\ settings.mode = "bond" /\ settings.access_limited
        /\ inlets # {} /\ outlets # {}
        /\ ret'.op = "is_percolating") =>
          /\ ret'.val = (ret'.applied_pressure >= PercolationThreshold(pinv, outlets))
          /\ ret'.val =
                SpanningPath(Occupied(results(ret'.applied_pressure, pinv, tinv).throat),
                             "bond")]_vars

\* C26: every flow-solver object the orchestrator creates is purged after its
\* effective permeability is taken and before the conduit models are
\* regenerated for the next point or axis, and when setup() returns normally
\* no solver object is left in the project.
C26_SolversPurged ==
    [][/\ (project'.created > project.created /\ rpRet'.err = "") =>
             /\ project'.objects = {}
             /\ project'.Keff # NoData
       /\ phases'.regenerated # phases.regenerated => project.objects = {}
       /\ (rpRet'.op = "setup" /\ rpRet'.err = "") => project'.objects = {}]_vars

\* setup() has returned normally after the solves of a baseline and of a
\* saturation point
C26_Witness ==
    /\ rpRet.op = "setup" /\ rpRet.err = ""
    /\ project.created >= 4 /\ project.objects = {}
    /\ phases.regenerated >= 2

\* The number of inv.run() calls made for an invasion axis, and the invasion
\* axes of the pairs of the call.
RunsOf(runs, a) == Cardinality({j \in 1..Len(runs) : runs[j] = a})
InvasionAxes == {rpSettings.input_vect[j][1] : j \in 1..Len(rpSettings.input_vect)}

\* C27: within one setup() call invasion percolation is run exactly once for
\* each distinct invasion axis, and the sweeps of all the pairs that share the
\* axis use that one run.
C27_OneRunPerAxis ==
    [][/\ ip'.runs # ip.runs => \A a \in Axes : RunsOf(ip'.runs, a) <= 1
       /\ (rpRet'.op = "setup" /\ rpRet'.err = "") =>
             \A a \in Axes : RunsOf(ip'.runs, a) = IF a \in InvasionAxes THEN 1 ELSE 0]_vars

\* C28: the site sets that are used, the invasion inlets given to the
\* invasion percolation and the flow inlets and outlets given to the
\* effective-permeability computation, are the every-other-site subsample
\* (positions 0, 2, 4, ...) of the sites that carry the boundary label.
C28_Subsampled ==
    /\ ip.pores =
         UNION {Values(Subsample(network_pores(inlet_dict[a]))) : a \in ip.inlets}
    /\ project.Keff # NoData =>
         \E a \in Axes :
            /\ project.inlets = Subsample(network_pores(inlet_dict[a]))
            /\ project.outlets = Subsample(network_pores(outlet_dict[a]))

\* C30: the session state is private to an instance: setup() on one of two
\* default-constructed instances changes neither the label maps, the
\* baselines and the saturation and relative-permeability lists of the other
\* instance nor the module's default settings.
C30_InstancesPrivate ==
    [][/\ rpModule'.other = rpModule.other
       /\ rpModule'.default_settings = rpModule.default_settings]_vars

====
